---- MODULE Spec2Model ----
(***************************************************************************)
(* A state-machine model of AlignmentLogic                                 *)
(* (src/src/qudi/logic/alignment_logic.py) together with the part of the  *)
(* MotorInterface it drives (src/src/qudi/hardware/motor/ape_harmonixx.py).*)
(*                                                                         *)
(* Positions and signal values are floats in the program; the model uses   *)
(* integers.  A Python dict is a function whose DOMAIN is its key set, a   *)
(* Python list / numpy array is a sequence.                                *)
(*                                                                         *)
(* Variables that are not program state (history of the last call, used    *)
(* only to state properties): op, run_start, calls.                    *)
(***************************************************************************)
EXTENDS Integers, Sequences, FiniteSets, TLC

VARIABLES
    constraints,         \* self._constraints : axis -> [pos_min, pos_max, pos_step]
    axis_list,           \* self._axis_list
    optimized_axis,      \* self._optimized_axis
    axis_range,          \* self._axis_range : axis -> array of positions
    optimization_method, \* self._optimization_method
    alignments,          \* self._alignments : name -> (axis -> position)
    motor_positions,     \* self._motor_positions (the cached position)
    scan,                \* self._scan
    scan_pos,            \* self._scan_pos
    points,              \* self._points
    point_index,         \* self.point_index
    connections,         \* slots connected to self._scanner_signal
    pending,             \* queued slot calls posted by self._scanner_signal.emit()
    motor_pos,           \* the positioner: axis -> actual position
    csv,                 \* the file save_alignments writes and upload_alignments reads
    run_start,           \* history: the positioner's position, the selection, the
                         \* number of the call, whether no slot was connected or
                         \* queued, and the cursor and the points the earlier run
                         \* left, when start_optimization was last called
    calls,               \* history: number of calls made by the user of the logic
    op                   \* history: the last call, its outcome and the moves it commanded

vars == <<constraints, axis_list, optimized_axis, axis_range, optimization_method,
          alignments, motor_positions, scan, scan_pos, points, point_index,
          connections, pending, motor_pos, csv, run_start, calls, op>>

(***************************************************************************)
(* Bounds of the model                                                     *)
(***************************************************************************)
MaxInput == 3        \* range edits request a min and a max in (0 - 2) .. MaxInput
MaxGridLen == 3      \* longest axis range drawn for the grid generation
MaxPending == 3      \* queued slot calls kept in the event queue
MaxOps == 3          \* calls made by the user of the logic in one behaviour

(***************************************************************************)
(* Generic helpers                                                         *)
(***************************************************************************)
\* An attribute that may hold no value (None, or never assigned) is a set:
\* Unset, or Some(v).  self.point_index before its first assignment is NoIndex.
Unset == {}

Some(v) == {v}

Val(o) == CHOOSE v \in o : TRUE

NoIndex == 0 - 1

EmptyDict == [a \in {} |-> 0]

SeqRange(s) == {s[i] : i \in 1..Len(s)}

Min(S) == CHOOSE v \in S : \A w \in S : v <= w

Max(S) == CHOOSE v \in S : \A w \in S : v >= w

\* dict.update: the entries of g override those of f
Update(f, g) == [k \in (DOMAIN f) \cup (DOMAIN g) |-> IF k \in DOMAIN g THEN g[k] ELSE f[k]]

RECURSIVE Product(_)
Product(lens) == IF lens = <<>> THEN 1 ELSE Head(lens) * Product(Tail(lens))

\* the history record of one call
\*   name, arg : the method called and its argument
\*   err       : the exception it raised ("none": it returned)
\*   log       : the level of the message it logged
\*   status    : what get_status returned to it
\*   fit       : how the fit ended, when it ran
\*   moves     : the dicts it handed to move_abs, in order
\*   edits     : the np.arange calls of the axis_range setter
\*   active    : whether a slot call was queued when it was called
\*   moved     : whether it changed the position of the positioner
Op(name, arg, err, log, status, fit, moves, edits, active, moved) ==
    [name |-> name, arg |-> arg, err |-> err, log |-> log, status |-> status,
     fit |-> fit, moves |-> moves, edits |-> edits, active |-> active, moved |-> moved]

NoOp == Op("on_activate", "", "none", "none", EmptyDict, "none", <<>>, <<>>, FALSE, FALSE)

(***************************************************************************)
(* numpy                                                                   *)
(***************************************************************************)
CeilDiv(n, d) == (n + d - 1) \div d

\* len(np.arange(start, stop, step)); a zero step raises
ArangeLen(start, stop, step) ==
    IF step > 0 THEN (IF stop > start THEN CeilDiv(stop - start, step) ELSE 0)
    ELSE IF step < 0 THEN (IF start > stop THEN CeilDiv(start - stop, 0 - step) ELSE 0)
    ELSE 0

\* np.arange(start, stop, step)
Arange(start, stop, step) ==
    [i \in 1..ArangeLen(start, stop, step) |-> start + (i - 1) * step]

(***************************************************************************)
(* The positioner (MotorInterface)                                         *)
(***************************************************************************)
Constraint(lo, hi, step) == [pos_min |-> lo, pos_max |-> hi, pos_step |-> step]

\* get_constraints() of the motor used to check the range edits: 0 lies inside
\* the limits of x and outside those of y, and y has a coarser step
RangeMotor ==
    [order |-> <<"x", "y">>,
     table |-> [a \in {"x", "y"} |->
                  IF a = "x" THEN Constraint(0 - 1, 2, 1) ELSE Constraint(1, 3, 2)]]

\* get_constraints() of the motor used to check the grid generation
GridMotor ==
    [order |-> <<"x", "y", "z">>,
     table |-> [a \in {"x", "y", "z"} |-> Constraint(0, MaxGridLen, 1)]]

\* get_constraints() of the motor driven by the optimization runs: x has four
\* positions to scan, y a single one
RunMotor ==
    [order |-> <<"x", "y">>,
     table |-> [a \in {"x", "y"} |->
                  IF a = "x" THEN Constraint(0 - 1, 3, 1) ELSE Constraint(0, 1, 1)]]

\* an axis label no motor knows
UnknownAxis == "q"

\* get_pos(param_list): a dict of the positions of the listed axes; a label
\* the motor does not know raises KeyError
GetPosFails(pos, param_list) == \E a \in SeqRange(param_list) : a \notin DOMAIN pos

GetPos(pos, param_list) == [a \in SeqRange(param_list) |-> pos[a]]

\* move_abs(param_dict): every listed axis is sent int(rel_pos) steps towards
\* its target (lines 214-217: the fraction of a step is dropped), and the
\* positions read back from the device are returned; an unknown label raises
\* KeyError.  A step of the axis is pos_step units of position.
MoveAbsFails(pos, param_dict) == \E a \in DOMAIN param_dict : a \notin DOMAIN pos

WholeSteps(rel_pos, step) ==
    IF rel_pos >= 0 THEN (rel_pos \div step) * step
    ELSE 0 - (((0 - rel_pos) \div step) * step)

MoveAbs(pos, param_dict) ==
    Update(pos, [a \in DOMAIN param_dict |->
                    pos[a] + WholeSteps(param_dict[a] - pos[a], constraints[a].pos_step)])

(***************************************************************************)
(* on_activate: the state after construction and activation                *)
(***************************************************************************)
InitialRanges(table) ==
    [a \in DOMAIN table |-> Arange(table[a].pos_min, table[a].pos_max, table[a].pos_step)]

OnActivate(hw, method) ==
    /\ constraints = hw.table
    /\ axis_list = hw.order
    /\ optimized_axis = hw.order
    /\ alignments = EmptyDict
    /\ motor_pos = [a \in DOMAIN hw.table |-> hw.table[a].pos_max]
    /\ motor_positions = GetPos(motor_pos, hw.order)
    /\ axis_range = InitialRanges(hw.table)
    /\ optimization_method = method
    /\ scan = Unset
    /\ scan_pos = Unset
    /\ points = Unset
    /\ point_index = NoIndex
    /\ connections = <<>>
    /\ pending = <<>>
    /\ csv = Unset
    /\ run_start = Unset
    /\ calls = 0
    /\ op = NoOp

(***************************************************************************)
(* axis_range setter                                                       *)
(***************************************************************************)
RangeInputs == (0 - 2)..MaxInput

\* requested steps: negative, zero, the hardware step of x, the hardware step of y
StepInputs == (0 - 1)..2

\* lines 119-122: the requested minimum, or the hardware minimum
ClampMinNoLowerCheck(ax_min, c) ==
    IF ax_min > c.pos_max \/ ax_min = 0 THEN c.pos_min ELSE ax_min

ClampMin(ax_min, c) ==
    IF ax_min < c.pos_min \/ ax_min > c.pos_max \/ ax_min = 0 THEN c.pos_min ELSE ax_min

\* lines 124-127: the requested maximum, or the hardware maximum
ClampMax(ax_max, c) ==
    IF ax_max > c.pos_max \/ ax_max < c.pos_min \/ ax_max = 0 THEN c.pos_max ELSE ax_max

\* lines 129-133: the requested step, or the hardware step
ClampStep(ax_step, ax_min, ax_max, c) ==
    IF ax_step < c.pos_step \/ ax_step > ax_max - ax_min \/ ax_step = 0
    THEN c.pos_step ELSE ax_step

\* one pass of the loop body for one (axis, (min, max, step)) item
EditOf(item, c) ==
    LET lo == ClampMin(item.min, c)
        hi == ClampMax(item.max, c)
        st == ClampStep(item.step, lo, hi, c)
    IN [axis |-> item.axis, req |-> item, min |-> lo, max |-> hi, step |-> st,
        warned |-> (lo # item.min \/ hi # item.max \/ st # item.step)]

\* the loop over axis_dict.items(): an axis without constraints raises KeyError
\* and leaves the ranges stored by the earlier passes
RECURSIVE ApplyEdits(_, _, _, _)
ApplyEdits(items, table, ranges, done) ==
    IF items = <<>> THEN [ranges |-> ranges, err |-> "none", edits |-> done]
    ELSE IF Head(items).axis \notin DOMAIN table
         THEN [ranges |-> ranges, err |-> "KeyError", edits |-> done]
         ELSE LET e == EditOf(Head(items), table[Head(items).axis])
              IN ApplyEdits(Tail(items), table,
                            Update(ranges, [a \in {e.axis} |-> Arange(e.min, e.max, e.step)]),
                            Append(done, e))

EditItems(axes) ==
    [axis : axes, min : RangeInputs, max : RangeInputs, step : StepInputs]

\* the dicts handed to the setter, as their items in iteration order.  The
\* passes of the loop are independent of each other, so a dict of several axes
\* stores what the same items stored one call at a time: the dicts drawn hold
\* one axis.
EditDicts(axes) == {<<item>> : item \in EditItems(axes)}

set_axis_range(axis_dict) ==
    LET r == ApplyEdits(axis_dict, constraints, axis_range, <<>>)
    IN /\ axis_range' = r.ranges
       /\ op' = Op("axis_range", "", r.err,
                   IF \E i \in 1..Len(r.edits) : r.edits[i].warned THEN "warning" ELSE "none",
                   EmptyDict, "none", <<>>, r.edits, FALSE, FALSE)
       /\ UNCHANGED <<csv, constraints, axis_list, optimized_axis, optimization_method,
                      alignments, motor_positions, scan, scan_pos, points, point_index,
                      connections, pending, motor_pos, run_start, calls>>

InitRange == OnActivate(RangeMotor, "raster")

NextRange == \E d \in EditDicts(DOMAIN constraints \cup {UnknownAxis}) : set_axis_range(d)

SpecRange == InitRange /\ [][NextRange]_vars

Reverse(s) == [i \in 1..Len(s) |-> s[Len(s) + 1 - i]]

\* the indexing np.meshgrid uses when none is given
MeshIndexingIJ == "ij"

MeshIndexing == "xy"

\* shape of each array np.meshgrid returns for inputs of the given lengths:
\* with 'xy' indexing the first two dimensions are swapped
MeshShape(lens) ==
    IF MeshIndexing = "xy" /\ Len(lens) >= 2
    THEN [i \in 1..Len(lens) |-> IF i = 1 THEN lens[2] ELSE IF i = 2 THEN lens[1] ELSE lens[i]]
    ELSE lens

\* the dimension of the grid along which input m varies
MeshDim(m, n) ==
    IF MeshIndexing = "xy" /\ n >= 2
    THEN (IF m = 1 THEN 2 ELSE IF m = 2 THEN 1 ELSE m)
    ELSE m

\* np.unravel_index(k, shape) in C order (last dimension fastest), 1-based
RECURSIVE Unravel(_, _)
Unravel(k, shape) ==
    IF shape = <<>> THEN <<>>
    ELSE LET n == Len(shape)
         IN Append(Unravel(k \div shape[n], SubSeq(shape, 1, n - 1)), (k % shape[n]) + 1)

\* np.array(ranges).T for ranges of equal length: a forgotten meshgrid
RasterPointsNoMeshgrid(ranges) ==
    LET n == Len(ranges)
        len == Min({Len(ranges[m]) : m \in 1..n})
    IN [k \in 1..len |-> [m \in 1..n |-> ranges[m][k]]]

\* row k of A.T.reshape(-1, n), A[m] the m-th meshgrid array: the transposed
\* array has the reversed shape, its element [t, m] is A[m][reversed t]
RasterPoints(ranges) ==
    LET n == Len(ranges)
        lens == [m \in 1..n |-> Len(ranges[m])]
        shape == MeshShape(lens)
        idx(k) == Reverse(Unravel(k, Reverse(shape)))
    IN [k \in 1..Product(lens) |-> [m \in 1..n |-> ranges[m][idx(k - 1)[MeshDim(m, n)]]]]

\* the ranges of the selected axes, in selection order (KeyError for an axis
\* without a range)
SelectedRanges == [j \in 1..Len(optimized_axis) |-> axis_range[optimized_axis[j]]]

\* lines 271-275, the block raster_scan runs when point_index == 0
generate_points ==
    /\ point_index = 0
    /\ points = Unset
    /\ points' = Some(RasterPoints(SelectedRanges))
    /\ scan_pos' = Some(<<>>)
    /\ scan' = Some(<<>>)
    /\ op' = Op("generate_points", "", "none", "none", EmptyDict, "none", <<>>, <<>>,
                FALSE, FALSE)
    /\ UNCHANGED <<csv, constraints, axis_list, optimized_axis, axis_range, optimization_method,
                   alignments, motor_positions, point_index, connections, pending,
                   motor_pos, run_start, calls>>

\* ranges the axis_range setter can store: np.arange(lo, hi, 1)
GridRanges == {Arange(lo, hi, 1) : lo \in 0..MaxGridLen, hi \in 0..MaxGridLen}

\* selections of one, two or three different axes, in every order
GridSelections(axes) ==
    {s \in UNION {[1..n -> axes] : n \in 1..3} :
        \A i, j \in 1..Len(s) : i # j => s[i] # s[j]}

InitGrid ==
    /\ constraints = GridMotor.table
    /\ axis_list = GridMotor.order
    /\ optimized_axis \in GridSelections(DOMAIN GridMotor.table)
    /\ axis_range \in [DOMAIN GridMotor.table -> GridRanges]
    /\ alignments = EmptyDict
    /\ motor_pos = [a \in DOMAIN GridMotor.table |-> 0]
    /\ motor_positions = motor_pos
    /\ optimization_method = "raster"
    /\ scan = Unset
    /\ scan_pos = Unset
    /\ points = Unset
    /\ point_index = 0
    /\ connections = <<>>
    /\ pending = <<>>
    /\ csv = Unset
    /\ run_start = Unset
    /\ calls = 0
    /\ op = NoOp

NextGrid == generate_points

SpecGrid == InitGrid /\ [][NextGrid]_vars

\* every choice of one value per selected axis
Combinations(ranges) ==
    {c \in [1..Len(ranges) -> UNION {SeqRange(ranges[m]) : m \in 1..Len(ranges)}] :
        \A m \in 1..Len(ranges) : c[m] \in SeqRange(ranges[m])}

\* C2: the number of points generated at the start of a raster scan is the
\* product of the lengths of the ranges of the selected axes, and each
\* combination of one value per axis appears exactly once.
C2_PointCount ==
    points # Unset =>
        /\ Len(Val(points)) =
              Product([m \in 1..Len(SelectedRanges) |-> Len(SelectedRanges[m])])
        /\ \A c \in Combinations(SelectedRanges) :
              Cardinality({k \in 1..Len(Val(points)) : Val(points)[k] = c}) = 1

\* points were generated for three different axes with ranges of three
\* different lengths, the first two longer than one
C2_Witness ==
    /\ points # Unset
    /\ Len(optimized_axis) = 3
    /\ Cardinality(SeqRange(optimized_axis)) = 3
    /\ Cardinality({Len(SelectedRanges[m]) : m \in 1..3}) = 3
    /\ Len(SelectedRanges[1]) > 1
    /\ Len(SelectedRanges[2]) > 1
    /\ Len(Val(points)) = Len(SelectedRanges[1]) * Len(SelectedRanges[2]) * Len(SelectedRanges[3])
    /\ Len(Val(points)) > 0

\* row k (from 0) of the row-major expansion: the last axis varies fastest
RowMajorPoint(ranges, k) ==
    [j \in 1..Len(ranges) |->
        ranges[j][((k \div Product([m \in 1..(Len(ranges) - j) |-> Len(ranges[j + m])]))
                   % Len(ranges[j])) + 1]]

\* row k (from 0) for three axes: the second axis varies fastest, then the
\* first, and the third is the slowest
SecondFastestPoint(ranges, k) ==
    <<ranges[1][((k \div Len(ranges[2])) % Len(ranges[1])) + 1],
      ranges[2][(k % Len(ranges[2])) + 1],
      ranges[3][(k \div (Len(ranges[1]) * Len(ranges[2]))) + 1]>>

Values == {1}

\* the attributes as they are now, before a call
Now ==
    [point_index |-> point_index, points |-> points, scan |-> scan, scan_pos |-> scan_pos,
     connections |-> connections, pending |-> pending, motor_pos |-> motor_pos,
     motor_positions |-> motor_positions,
     err |-> "none", log |-> "none", moves |-> <<>>, fit |-> "none"]

Raise(s, e) == [s EXCEPT !.err = e]

\* the keys of a dict filled by a loop over seq, in insertion order
RECURSIVE Keys(_)
Keys(seq) ==
    IF seq = <<>> THEN <<>>
    ELSE LET rest == Keys(SubSeq(seq, 1, Len(seq) - 1))
         IN IF seq[Len(seq)] \in SeqRange(rest) THEN rest ELSE Append(rest, seq[Len(seq)])

\* the index of the last occurrence of a in seq
LastIndex(seq, a) == Max({j \in 1..Len(seq) : seq[j] = a})

\* the labels move_abs reaches before it raises KeyError on an unknown one
RECURSIVE KnownPrefix(_, _)
KnownPrefix(order, pos) ==
    IF order = <<>> \/ Head(order) \notin DOMAIN pos THEN <<>>
    ELSE <<Head(order)>> \o KnownPrefix(Tail(order), pos)

\* self.motor().move_abs(param_dict), the dict iterated in the given order
DoMoveAbs(s, order, param_dict) ==
    LET reached == SeqRange(KnownPrefix(order, s.motor_pos))
        moved == [s EXCEPT !.motor_pos = MoveAbs(s.motor_pos, [a \in reached |-> param_dict[a]]),
                           !.moves = Append(s.moves, param_dict)]
    IN IF MoveAbsFails(s.motor_pos, param_dict) THEN Raise(moved, "KeyError") ELSE moved

\* np.all of the values get_status returned (lines 265 and 317)
AnyReady(status) == \E a \in DOMAIN status : status[a]

AllReady(status) == \A a \in DOMAIN status : status[a]

\* self._scanner_signal.emit(): one queued call per connection
Emit(s) == [s EXCEPT !.pending = s.pending \o s.connections]

\* self._scanner_signal.disconnect(): TypeError when nothing is connected;
\* the queued calls of a disconnected slot are not delivered
Disconnect(s) ==
    IF s.connections = <<>> THEN Raise(s, "TypeError")
    ELSE [s EXCEPT !.connections = <<>>, !.pending = <<>>]

\* scan_point(point_index), lines 255-261
scan_point_unmoved(s, k, value) ==
    IF GetPosFails(s.motor_pos, Keys(optimized_axis)) THEN Raise(s, "KeyError")
    ELSE [s EXCEPT
            !.scan = Some(Append(Val(s.scan), value)),
            !.scan_pos = Some(Append(Val(s.scan_pos),
                              [j \in 1..Len(Keys(optimized_axis)) |->
                                  s.motor_pos[Keys(optimized_axis)[j]]]))]

scan_point_requested(s, k, value) ==
    LET row == Val(s.points)[k + 1]
        param_dict == [a \in SeqRange(optimized_axis) |-> row[LastIndex(optimized_axis, a)]]
        moved == DoMoveAbs(s, Keys(optimized_axis), param_dict)
    IN IF Len(optimized_axis) > Len(row) THEN Raise(s, "IndexError")
       ELSE IF moved.err # "none" THEN moved
       ELSE [moved EXCEPT
               !.scan = Some(Append(Val(s.scan), value)),
               !.scan_pos = Some(Append(Val(s.scan_pos),
                                 [j \in 1..Len(Keys(optimized_axis)) |->
                                     param_dict[Keys(optimized_axis)[j]]]))]

scan_point(s, k, value) ==
    LET row == Val(s.points)[k + 1]
        param_dict == [a \in SeqRange(optimized_axis) |-> row[LastIndex(optimized_axis, a)]]
        moved == DoMoveAbs(s, Keys(optimized_axis), param_dict)
    IN IF Len(optimized_axis) > Len(row) THEN Raise(s, "IndexError")
       ELSE IF moved.err # "none" THEN moved
       ELSE [moved EXCEPT
               !.scan = Some(Append(Val(s.scan), value)),
               !.scan_pos = Some(Append(Val(s.scan_pos),
                                 [j \in 1..Len(Keys(optimized_axis)) |->
                                     moved.motor_pos[Keys(optimized_axis)[j]]]))]

\* motor_positions setter, lines 185-186
motor_positions_setter(s, order, position_dict) ==
    LET moved == DoMoveAbs(s, order, position_dict)
    IN IF moved.err # "none" THEN moved
       ELSE IF GetPosFails(moved.motor_pos, axis_list) THEN Raise(moved, "KeyError")
       ELSE [moved EXCEPT !.motor_positions = GetPos(moved.motor_pos, axis_list)]

\* an iteration order of the keys of a dict
AnyOrder(d) ==
    CHOOSE q \in [1..Cardinality(DOMAIN d) -> DOMAIN d] : \A a \in DOMAIN d : \E i \in DOMAIN q : q[i] = a

\* column j of the sampled positions
Column(pos, j) == {pos[i][j] : i \in 1..Len(pos)}

\* (self._scan_pos[1::2, j] - self._scan_pos[::2, j]): the two slices broadcast
\* only when they are as long as each other or one of them holds one element
OddEvenBroadcasts(N) == N % 2 = 0 \/ N = 3

OddEvenDiffs(pos, j) ==
    IF Len(pos) = 3 THEN {pos[2][j] - pos[1][j], pos[2][j] - pos[3][j]}
    ELSE {pos[2 * i][j] - pos[2 * i - 1][j] : i \in 1..(Len(pos) \div 2)}

\* the exception raised between the last sample and the solver's first step,
\* lines 283-296: np.argmax of no sample, sampled positions of different
\* lengths (the selection changed during the scan: the array has no second
\* dimension to index), a column the samples do not have,
\* slices that do not broadcast, a parameter whose bounds coincide (lmfit
\* refuses min == max), fewer residuals than parameters (leastsq refuses)
FitInputError(s) ==
    LET pos == Val(s.scan_pos)
        N == Len(pos)
        n == Len(optimized_axis)
    IN IF N = 0 THEN "ValueError"
       ELSE IF \E i \in 1..N : Len(pos[i]) # Len(pos[1]) THEN "IndexError"
       ELSE IF n > Len(pos[1]) THEN "IndexError"
       ELSE IF \E j \in 1..n : Cardinality(Column(pos, j)) = 1 THEN "ValueError"
       ELSE IF ~OddEvenBroadcasts(N) THEN "ValueError"
       ELSE IF \E j \in 1..n : Min(OddEvenDiffs(pos, j)) = pos[1][j] - pos[N][j] THEN "ValueError"
       ELSE IF N < 2 + 2 * n THEN "TypeError"
       ELSE "none"

\* how lmfit.minimize can end on inputs it accepts: it raises (a residual that
\* is not finite), returns a converged result, or returns a result whose
\* success flag is False
FitOutcomes == {"raise", "converged", "not_converged"}

\* the values params["x<j>"] can take: within the bounds given at line 292
Centres(s) ==
    IF s.scan_pos = Unset \/ Val(s.scan_pos) = <<>> THEN {<<>>}
    ELSE IF \E i \in 1..Len(Val(s.scan_pos)) : Len(Val(s.scan_pos)[i]) # Len(Val(s.scan_pos)[1])
    THEN {<<>>}
    ELSE LET pos == Val(s.scan_pos)
         IN {c \in [1..Len(pos[1]) -> UNION {Column(pos, j) : j \in 1..Len(pos[1])}] :
                \A j \in 1..Len(pos[1]) : c[j] >= Min(Column(pos, j)) /\ c[j] <= Max(Column(pos, j))}

\* lines 297-302: the move to the fitted centre, then the assignment to the
\* motor_positions property of the positions read back
Commit(s, centre) ==
    LET position_dict == [a \in SeqRange(optimized_axis) |-> centre[LastIndex(optimized_axis, a)]]
        moved == DoMoveAbs(s, Keys(optimized_axis), position_dict)
    IN IF moved.err # "none" THEN moved
       ELSE IF GetPosFails(moved.motor_pos, axis_list) THEN Raise(moved, "KeyError")
       ELSE motor_positions_setter(moved, Keys(axis_list), GetPos(moved.motor_pos, axis_list))

\* lines 282-302: the branch raster_scan takes once every point is sampled
FitAndCommit(s, fit, centre) ==
    LET d == Disconnect(s)
    IN IF d.err # "none" THEN d
       ELSE IF FitInputError(d) # "none" THEN [Raise(d, FitInputError(d)) EXCEPT !.fit = "error"]
       ELSE IF fit = "raise" THEN [Raise(d, "ValueError") EXCEPT !.fit = "error"]
       ELSE Commit([d EXCEPT !.fit = fit], centre)

\* raster_scan, lines 263-304
raster_scan_stale(s, status, value, fit, centre) ==
    IF ~AllReady(status) THEN Emit([s EXCEPT !.log = "debug"])
    ELSE IF s.point_index = 0 /\ \E a \in SeqRange(optimized_axis) : a \notin DOMAIN axis_range
         THEN Raise(s, "KeyError")
    ELSE LET s1 == IF s.point_index = 0 /\ s.points = Unset
                   THEN [s EXCEPT !.points = Some(RasterPoints(SelectedRanges)),
                                  !.scan_pos = Some(<<>>),
                                  !.scan = Some(<<>>)]
                   ELSE s
         IN IF s1.points = Unset THEN Raise(s1, "AttributeError")
            ELSE IF s1.point_index < Len(Val(s1.points))
                 THEN LET s2 == scan_point(s1, s1.point_index, value)
                      IN IF s2.err # "none" THEN s2
                         ELSE Emit([s2 EXCEPT !.point_index = @ + 1])
                 ELSE FitAndCommit(s1, fit, centre)

raster_scan(s, status, value, fit, centre) ==
    IF ~AllReady(status) THEN Emit([s EXCEPT !.log = "debug"])
    ELSE IF s.point_index = 0 /\ \E a \in SeqRange(optimized_axis) : a \notin DOMAIN axis_range
         THEN Raise(s, "KeyError")
    ELSE LET s1 == IF s.point_index = 0
                   THEN [s EXCEPT !.points = Some(RasterPoints(SelectedRanges)),
                                  !.scan_pos = Some(<<>>),
                                  !.scan = Some(<<>>)]
                   ELSE s
         IN IF s1.points = Unset THEN Raise(s1, "AttributeError")
            ELSE IF s1.point_index < Len(Val(s1.points))
                 THEN LET s2 == scan_point(s1, s1.point_index, value)
                      IN IF s2.err # "none" THEN s2
                         ELSE Emit([s2 EXCEPT !.point_index = @ + 1])
                 ELSE FitAndCommit(s1, fit, centre)

\* gradient_descent, lines 315-343.  At point_index 0, line 325 indexes the
\* cached position, a dict keyed by axis label, with 0, 1, ...: KeyError.  At
\* any other index scan_point runs and lines 331-332 subtract two lists:
\* TypeError.  Lines 334-343 are never reached.
gradient_descent(s, status, value) ==
    IF ~AllReady(status) THEN Emit([s EXCEPT !.log = "debug"])
    ELSE IF s.point_index = 0 THEN Raise(s, "KeyError")
    ELSE IF s.points = Unset \/ s.scan = Unset THEN Raise(s, "AttributeError")
    ELSE IF s.point_index >= Len(Val(s.points)) THEN Raise(s, "IndexError")
    ELSE LET s2 == scan_point(s, s.point_index, value)
         IN IF s2.err # "none" THEN s2 ELSE Raise(s2, "TypeError")

\* start_optimization, lines 230-236: the comparison is with the strings
\* "raster" and "gradient"; a member of OptimizationMethod equals neither
start_optimization(s, status, value, fit, centre) ==
    LET s0 == [s EXCEPT !.point_index = 0]
    IN IF optimization_method = "raster"
       THEN raster_scan([s0 EXCEPT !.connections = Append(@, "raster_scan")],
                        status, value, fit, centre)
       ELSE IF optimization_method = "gradient"
       THEN gradient_descent([s0 EXCEPT !.connections = Append(@, "gradient_descent")],
                             status, value)
       ELSE s0

\* stop_optimization, lines 245-247
stop_optimization(s) ==
    IF s.point_index = NoIndex \/ s.points = Unset THEN Raise(s, "AttributeError")
    ELSE IF s.point_index < Len(Val(s.points))
         THEN LET d == Disconnect(s)
              IN IF d.err # "none" THEN d
                 ELSE DoMoveAbs(d, AnyOrder(s.motor_positions), s.motor_positions)
         ELSE s

(***************************************************************************)
(* The alignment store and the property setters                            *)
(***************************************************************************)
\* add_alignment, line 193: a copy of the cached position
add_alignment_to(store, name, cached) == Update(store, [k \in {name} |-> cached])

\* retrieve_alignment, lines 197-200: the dict handed to move_abs
RetrieveCached(s, name) == s.motor_positions

RetrieveTarget(s, name) == alignments[name]

retrieve_alignment_default(s, name) ==
    LET target == IF name \in DOMAIN alignments THEN alignments[name] ELSE s.motor_positions
        moved == DoMoveAbs(s, AnyOrder(target), target)
    IN IF moved.err # "none" THEN moved
       ELSE [moved EXCEPT !.motor_positions = GetPos(moved.motor_pos, AnyOrder(target))]

retrieve_alignment_in(s, name) ==
    IF name \notin DOMAIN alignments THEN [s EXCEPT !.log = "error"]
    ELSE LET target == RetrieveTarget(s, name)
             moved == DoMoveAbs(s, AnyOrder(target), target)
         IN IF moved.err # "none" THEN moved
            ELSE [moved EXCEPT !.motor_positions = GetPos(moved.motor_pos, AnyOrder(target))]

\* optimization_method setter, lines 172-177
EnumOf(method) ==
    IF method \in {"raster", "gradient"} THEN "OptimizationMethod." \o method ELSE method

IsEnum(method) == method \in {"OptimizationMethod.raster", "OptimizationMethod.gradient"}

(***************************************************************************)
(* Actions: one per call made by the user of the logic, and one for the    *)
(* delivery of a queued slot call by the event loop                        *)
(***************************************************************************)
\* the attributes and the history after a call that ended in record s
Ends(s, name, arg, status) ==
    /\ Len(s.pending) <= MaxPending
    /\ point_index' = s.point_index
    /\ points' = s.points
    /\ scan' = s.scan
    /\ scan_pos' = s.scan_pos
    /\ connections' = s.connections
    /\ pending' = s.pending
    /\ motor_pos' = s.motor_pos
    /\ motor_positions' = s.motor_positions
    /\ op' = Op(name, arg, s.err, s.log, status, s.fit, s.moves, <<>>, pending # <<>>,
                s.motor_pos # motor_pos)

ByUser == calls < MaxOps /\ calls' = calls + 1

StatusReports == [SeqRange(optimized_axis) -> BOOLEAN]

\* The inputs of a tick are drawn only where the tick reads them: the fit
\* outcome and the fitted centre when the solver is called, a signal value
\* when the motor is ready and a point is left to sample.
ReachesSolver(s, status) ==
    /\ AllReady(status)
    /\ s.point_index > 0
    /\ s.points # Unset
    /\ s.scan_pos # Unset
    /\ s.connections # <<>>
    /\ s.point_index >= Len(Val(s.points))
    /\ FitInputError(s) = "none"

ValueInputs(s, status) ==
    IF AllReady(status) /\ ~ReachesSolver(s, status) THEN Values ELSE {0}

FitInputs(s, status) == IF ReachesSolver(s, status) THEN FitOutcomes ELSE {"raise"}

CentreInputs(s, status, fit) ==
    IF ReachesSolver(s, status) /\ fit # "raise" THEN Centres(s) ELSE {<<>>}

StartOptimization ==
    /\ ByUser
    /\ \E status \in StatusReports : \E value \in ValueInputs(Now, status) :
          Ends(start_optimization(Now, status, value, "raise", <<>>),
               "start_optimization", "", status)
    /\ run_start' = Some([pos |-> motor_pos, selection |-> optimized_axis, call |-> calls',
                          idle |-> pending = <<>> /\ connections = <<>>,
                          left |-> [point_index |-> point_index, points |-> points]])
    /\ UNCHANGED <<csv, constraints, axis_list, optimized_axis, axis_range, optimization_method,
                   alignments>>

StopOptimization ==
    /\ ByUser
    /\ Ends(stop_optimization(Now), "stop_optimization", "", EmptyDict)
    /\ UNCHANGED <<csv, constraints, axis_list, optimized_axis, axis_range, optimization_method,
                   alignments, run_start>>

\* the event loop delivers the oldest queued call to its slot
RasterScanTick ==
    /\ pending # <<>>
    /\ Head(pending) = "raster_scan"
    /\ \E status \in StatusReports :
       \E value \in ValueInputs(Now, status), fit \in FitInputs(Now, status) :
       \E centre \in CentreInputs(Now, status, fit) :
          Ends(raster_scan([Now EXCEPT !.pending = Tail(pending)], status, value, fit, centre),
               "raster_scan", "", status)
    /\ UNCHANGED <<csv, constraints, axis_list, optimized_axis, axis_range, optimization_method,
                   alignments, run_start, calls>>

GradientDescentTick ==
    /\ pending # <<>>
    /\ Head(pending) = "gradient_descent"
    /\ \E status \in StatusReports : \E value \in ValueInputs(Now, status) :
          Ends(gradient_descent([Now EXCEPT !.pending = Tail(pending)], status, value),
               "gradient_descent", "", status)
    /\ UNCHANGED <<csv, constraints, axis_list, optimized_axis, axis_range, optimization_method,
                   alignments, run_start, calls>>

SetMotorPositions(position_dict) ==
    /\ ByUser
    /\ Ends(motor_positions_setter(Now, AnyOrder(position_dict), position_dict),
            "motor_positions", "", EmptyDict)
    /\ UNCHANGED <<csv, constraints, axis_list, optimized_axis, axis_range, optimization_method,
                   alignments, run_start>>

\* optimized_axis setter, lines 143-144
SetOptimizedAxis(new_list) ==
    /\ ByUser
    /\ optimized_axis' = IF \E i \in 1..Len(new_list) : new_list[i] \in SeqRange(axis_list)
                         THEN new_list ELSE optimized_axis
    /\ Ends(Now, "optimized_axis", new_list, EmptyDict)
    /\ UNCHANGED <<csv, constraints, axis_list, axis_range, optimization_method, alignments,
                   run_start>>

\* axis_list setter, lines 152-153
SetAxisList(new_list) ==
    /\ ByUser
    /\ axis_list' = IF \E i \in 1..Len(new_list) : new_list[i] \in DOMAIN constraints
                    THEN new_list ELSE axis_list
    /\ Ends(Now, "axis_list", new_list, EmptyDict)
    /\ UNCHANGED <<csv, constraints, optimized_axis, axis_range, optimization_method, alignments,
                   run_start>>

SetOptimizationMethod(method) ==
    /\ ByUser
    /\ optimization_method' = IF IsEnum(EnumOf(method)) THEN EnumOf(method)
                              ELSE optimization_method
    /\ Ends(IF IsEnum(EnumOf(method)) THEN Now ELSE [Now EXCEPT !.log = "error"],
            "optimization_method", method, EmptyDict)
    /\ UNCHANGED <<csv, constraints, axis_list, optimized_axis, axis_range, alignments,
                   run_start>>

AddAlignment(name) ==
    /\ ByUser
    /\ alignments' = add_alignment_to(alignments, name, motor_positions)
    /\ Ends(Now, "add_alignment", name, EmptyDict)
    /\ UNCHANGED <<csv, constraints, axis_list, optimized_axis, axis_range, optimization_method,
                   run_start>>

RetrieveAlignment(name) ==
    /\ ByUser
    /\ Ends(retrieve_alignment_in(Now, name), "retrieve_alignment", name, EmptyDict)
    /\ UNCHANGED <<csv, constraints, axis_list, optimized_axis, axis_range, optimization_method,
                   alignments, run_start>>

\* what the user of the logic hands to the setters and to the store
SelectionInputs == {<<"x">>, <<"y", "x">>, <<"x", UnknownAxis>>, <<UnknownAxis>>}

AxisListInputs == {<<"x">>, <<"x", UnknownAxis>>, <<UnknownAxis>>}

MethodInputs == {"raster", "OptimizationMethod.gradient", "newton"}

PositionInputs == {[a \in {"x"} |-> 1], [a \in {"x", "y"} |-> IF a = "x" THEN 0 ELSE 1]}

Names == {"A", "B"}

\* the saved status holds the method by name
Init == \E method \in {"raster", "gradient"} : OnActivate(RunMotor, method)

Next ==
    \/ StartOptimization
    \/ StopOptimization
    \/ RasterScanTick
    \/ GradientDescentTick
    \/ \E position_dict \in PositionInputs : SetMotorPositions(position_dict)
    \/ \E new_list \in SelectionInputs : SetOptimizedAxis(new_list)
    \/ \E new_list \in AxisListInputs : SetAxisList(new_list)
    \/ \E method \in MethodInputs : SetOptimizationMethod(method)
    \/ \E name \in Names : AddAlignment(name)
    \/ \E name \in Names : RetrieveAlignment(name)

Spec == Init /\ [][Next]_vars


(***************************************************************************)
(* Properties of the run and of the store                                  *)
(***************************************************************************)
\* the ticks: the slots raster_scan and gradient_descent
Ticks == {"raster_scan", "gradient_descent"}

\* the positioner reported at least one selected axis busy to the last call
Busy(call) == \E a \in DOMAIN call.status : ~call.status[a]

\* a raster scan has sampled some but not all of its points
MidScan ==
    /\ points # Unset
    /\ scan # Unset
    /\ point_index > 0
    /\ point_index < Len(Val(points))
    /\ Len(Val(scan)) > 0

\* C4: a tick (raster_scan or gradient_descent, delivered by the event loop
\* or run by start_optimization) during which the positioner reports a
\* selected axis busy changes neither the accumulated samples nor the sampled
\* positions nor the points, issues no move and leaves the positioner where
\* it is; delivered by the event loop it leaves the point cursor unchanged
\* too.  As this holds of every such step, it holds of any number of
\* consecutive busy ticks.
C4_BusyTickChangesNothing ==
    [][ /\ (op'.name \in Ticks /\ Busy(op')) =>
              /\ point_index' = point_index
              /\ scan' = scan
              /\ scan_pos' = scan_pos
              /\ points' = points
              /\ op'.moves = <<>>
              /\ motor_pos' = motor_pos
        /\ (op'.name = "start_optimization" /\ Busy(op')) =>
              /\ scan' = scan
              /\ scan_pos' = scan_pos
              /\ points' = points
              /\ op'.moves = <<>>
              /\ motor_pos' = motor_pos ]_vars

\* a raster tick found one axis busy and the other ready while some, not all,
\* points were sampled
C4_Witness ==
    /\ op.name = "raster_scan"
    /\ Busy(op)
    /\ \E a \in DOMAIN op.status : op.status[a]
    /\ MidScan
    /\ op.log = "debug"

\* the last start_optimization was called while no slot was connected or
\* queued, and the selection is still the one it found
StartedIdle ==
    /\ run_start # Unset
    /\ Val(run_start).idle
    /\ Val(run_start).selection = optimized_axis

\* C5 as claimed: when stop_optimization is called while a raster scan,
\* started when no run was active, has sampled some but not all of its
\* points, nothing but ticks happened between the two calls and the rollback
\* move succeeds, then no tick is queued or connected any more and every axis
\* of the positioner is where it was when start_optimization was called for
\* that run.
C5_CancelRestoresStartPosition ==
    (/\ op.name = "stop_optimization"
     /\ op.err = "none"
     /\ op.active
     /\ optimization_method = "raster"
     /\ StartedIdle
     /\ calls = Val(run_start).call + 1
     /\ MidScan) =>
        /\ pending = <<>>
        /\ connections = <<>>
        /\ motor_pos = Val(run_start).pos

\* C6: retrieve_alignment of a stored name that raises nothing leaves every
\* axis of the snapshot at the position stored under that name;
\* add_alignment stores the cached position under its name, and a stored
\* snapshot is changed by nothing but add_alignment of its own name (no
\* move, scan, rollback or recall alters it).
C6_RecallRestoresSnapshot ==
    [][ /\ (op'.name = "retrieve_alignment" /\ op'.arg \in DOMAIN alignments
             /\ op'.err = "none") =>
              \A a \in DOMAIN alignments[op'.arg] : motor_pos'[a] = alignments[op'.arg][a]
        /\ op'.name = "add_alignment" =>
              /\ op'.arg \in DOMAIN alignments'
              /\ alignments'[op'.arg] = motor_positions
        /\ \A name \in DOMAIN alignments :
              (op'.name = "add_alignment" => op'.arg # name) =>
                 /\ name \in DOMAIN alignments'
                 /\ alignments'[name] = alignments[name] ]_vars

\* a stored alignment was recalled and the recall moved the positioner, which
\* is now at the snapshot
C6_Witness ==
    /\ op.name = "retrieve_alignment"
    /\ op.arg \in DOMAIN alignments
    /\ op.err = "none"
    /\ op.moved
    /\ \A a \in DOMAIN alignments[op.arg] : motor_pos[a] = alignments[op.arg][a]

\* C7 as claimed: start_optimization called while a tick is queued is
\* rejected with AlreadyRunning and changes nothing: the cursor, the samples,
\* the sampled positions, the points, the connections and the queued ticks of
\* the active run are unchanged and the positioner is not moved.
C7_StartWhileActiveRejected ==
    [][ (op'.name = "start_optimization" /\ pending # <<>>) =>
           /\ op'.err = "AlreadyRunning"
           /\ point_index' = point_index
           /\ scan' = scan
           /\ scan_pos' = scan_pos
           /\ points' = points
           /\ connections' = connections
           /\ pending' = pending
           /\ motor_pos' = motor_pos ]_vars

\* C8: retrieve_alignment of a name the store does not hold logs an error,
\* commands no move and changes nothing: the positioner, the cached position,
\* the store, the cursor, the samples, the points, the connections and the
\* queued ticks are as before.
C8_UnknownNameChangesNothing ==
    [][ (op'.name = "retrieve_alignment" /\ op'.arg \notin DOMAIN alignments) =>
           /\ op'.log = "error"
           /\ op'.err = "none"
           /\ op'.moves = <<>>
           /\ UNCHANGED <<csv, constraints, axis_list, optimized_axis, axis_range,
                          optimization_method, alignments, motor_positions, scan, scan_pos,
                          points, point_index, connections, pending, motor_pos>> ]_vars

\* a name the store does not hold was recalled while it held another name and
\* the cached position was not the position of the positioner
C8_Witness ==
    /\ op.name = "retrieve_alignment"
    /\ op.arg \notin DOMAIN alignments
    /\ alignments # EmptyDict
    /\ op.log = "error"
    /\ motor_positions # GetPos(motor_pos, AnyOrder(motor_positions))

\* C9 as claimed: when the fit of a raster run, started when no run was
\* active, fails (the solver refuses its input, raises, or returns without
\* converging) the tick ends with an exception for the caller, no tick queued
\* or connected, and no move commanded since the last sample.
C9_FailedFitMovesNothing ==
    (op.name = "raster_scan" /\ op.fit \in {"error", "not_converged"} /\ StartedIdle) =>
        /\ op.err # "none"
        /\ op.moves = <<>>
        /\ ~op.moved
        /\ pending = <<>>
        /\ connections = <<>>

\* C10 as claimed: the tick of a raster run, started when no run was active,
\* whose fit converged and that raised nothing commanded exactly one move,
\* addressed to the optimized axes only; the cached position is then the
\* position read from the positioner for the axes of axis_list, and no tick
\* is queued or connected.
C10_CommitIsOneMove ==
    (op.name = "raster_scan" /\ op.fit = "converged" /\ op.err = "none" /\ StartedIdle) =>
        /\ Len(op.moves) = 1
        /\ DOMAIN op.moves[1] = SeqRange(optimized_axis)
        /\ motor_positions = GetPos(motor_pos, axis_list)
        /\ pending = <<>>
        /\ connections = <<>>

\* the run in progress is a raster run that start_optimization began while no
\* slot was connected or queued, and nothing but ticks happened since
CleanRasterRun ==
    /\ StartedIdle
    /\ optimization_method = "raster"
    /\ calls = Val(run_start).call
    /\ op.name \in {"start_optimization", "raster_scan"}

FiveFourMotor ==
    [order |-> <<"x", "y">>,
     table |-> [a \in {"x", "y"} |->
                  IF a = "x" THEN Constraint(0 - 1, 4, 1) ELSE Constraint(0, 4, 1)]]

\* no slot is connected and no call of one is queued
Idle == pending = <<>> /\ connections = <<>>

InitRun == OnActivate(FiveFourMotor, "raster")

StartWhenIdle == Idle /\ StartOptimization

SelectWhenIdle == Idle /\ \E new_list \in {<<"x">>, <<"y">>} : SetOptimizedAxis(new_list)

NextRun ==
    \/ StartWhenIdle
    \/ SelectWhenIdle
    \/ RasterScanTick

SpecRun == InitRun /\ [][NextRun]_vars

\* the samples the run took, as the fit set-up reads them
Sampled == [scan_pos |-> scan_pos]

\* the scan is one the fit is specified for: every scanned axis has more than
\* one position and there are at least as many samples as free parameters
Fittable ==
    /\ scan_pos # Unset
    /\ Len(Val(scan_pos)) >= 2 + 2 * Len(optimized_axis)
    /\ \A i \in 1..Len(Val(scan_pos)) : Len(Val(scan_pos)[i]) = Len(optimized_axis)
    /\ \A j \in 1..Len(optimized_axis) : Cardinality(Column(Val(scan_pos), j)) > 1

\* C12 as claimed, of the tick that follows the last sample of a raster run
\* started while idle and left to itself, over points the fit is specified
\* for: the run has taken exactly one sample per point, the fit runs on them,
\* and unless the solver itself raises the run commits (a move is commanded
\* and the cached position is the positioner's) and ends with no slot
\* connected or queued.
C12_RunReachesCommit ==
    (CleanRasterRun /\ op.name = "raster_scan" /\ op.fit # "none" /\ Fittable) =>
        /\ Len(Val(scan)) = Len(Val(points))
        /\ FitInputError(Sampled) = "none"
        /\ Idle
        /\ op.fit # "error" =>
              /\ op.moves # <<>>
              /\ motor_positions = GetPos(motor_pos, axis_list)

\* the last call was a tick of a gradient run (delivered by the event loop or
\* run by start_optimization) that found every selected axis ready
ReadyGradientTick ==
    /\ \/ op.name = "gradient_descent"
       \/ op.name = "start_optimization" /\ optimization_method = "gradient"
    /\ ~Busy(op)

\* C13 as claimed: the tick that ends a gradient run (it found the positioner
\* ready and queued no further tick) raised nothing, committed the final
\* position by a move of the optimized axes and refreshed the cached position,
\* so that the cached position is the positioner's and no slot is connected
\* or queued.
C13_GradientRunCommits ==
    (ReadyGradientTick /\ pending = <<>>) =>
        /\ op.err = "none"
        /\ op.moves # <<>>
        /\ DOMAIN op.moves[Len(op.moves)] = SeqRange(optimized_axis)
        /\ motor_positions = GetPos(motor_pos, AnyOrder(motor_positions))
        /\ connections = <<>>

\* C14 as claimed: when stop_optimization is the first call made after a
\* raster run was started while idle, a tick of the run is still queued
\* (points are left to sample, or all are sampled and the fit has not run)
\* and stop_optimization raises nothing, then no slot is connected or queued
\* any more, so that no later tick samples, fits or commits, and the one
\* move commanded is the rollback.
C14_CancelStopsTicks ==
    (/\ op.name = "stop_optimization"
     /\ op.err = "none"
     /\ op.active
     /\ optimization_method = "raster"
     /\ StartedIdle
     /\ calls = Val(run_start).call + 1) =>
        /\ pending = <<>>
        /\ connections = <<>>
        /\ Len(op.moves) = 1

\* C15 as claimed: when a call of the positioner raises during a tick of a
\* run (the tick commanded a move and ended on the positioner's KeyError),
\* the run is over: no tick is queued and no slot is connected.
C15_HardwareFailureEndsRun ==
    (/\ op.name \in Ticks \cup {"start_optimization"}
     /\ op.err = "KeyError"
     /\ op.moves # <<>>) =>
        /\ pending = <<>>
        /\ connections = <<>>

\* C16 as claimed: the optimized_axis setter called with a list in which some
\* identifier is not an axis of axis_list is rejected, leaving the selection
\* as it was, and a selection it accepts holds axes of axis_list only.
C16_UnknownAxisRejected ==
    [][ op'.name = "optimized_axis" =>
          /\ (\E i \in 1..Len(op'.arg) : op'.arg[i] \notin SeqRange(axis_list)) =>
                 optimized_axis' = optimized_axis
          /\ optimized_axis' # optimized_axis =>
                 SeqRange(optimized_axis') \subseteq SeqRange(axis_list) ]_vars

(***************************************************************************)
(* save_alignments and upload_alignments                                   *)
(*                                                                         *)
(* The file is the table to_csv writes: a header line, whose first cell    *)
(* (the label of the index) is empty and whose other cells are the names,  *)
(* and one row per axis, its label first.  Positions are written and read  *)
(* back as the numbers they are.                                           *)
(***************************************************************************)
\* the cell to_csv leaves empty where a snapshot has no position for an axis,
\* and what read_csv makes of it
NaN == "nan"

\* the name read_csv gives to column i (from 0) when its header cell is empty
Unnamed(i) == "Unnamed: " \o ToString(i)

\* the keys of a set, in an iteration order
OrderOf(S) == AnyOrder([a \in S |-> a])

\* pd.DataFrame(self._alignments).to_csv(path), lines 204-205: one column per
\* name, one row per axis of any snapshot
to_csv(store) ==
    LET names == OrderOf(DOMAIN store)
        index == OrderOf(UNION {DOMAIN store[n] : n \in DOMAIN store})
    IN [header |-> <<"">> \o names,
        rows |-> [i \in 1..Len(index) |->
                    [label |-> index[i],
                     cells |-> [j \in 1..Len(names) |->
                                  IF index[i] \in DOMAIN store[names[j]]
                                  THEN store[names[j]][index[i]] ELSE NaN]]]]

\* the column names of pd.read_csv(path), line 210
ColumnNames(header) ==
    [i \in 1..Len(header) |-> IF header[i] = "" THEN Unnamed(i - 1) ELSE header[i]]

\* pd.read_csv(path).to_dict(), lines 210-211: column name -> row number -> cell
read_csv_to_dict(file) ==
    LET columns == ColumnNames(file.header)
    IN [name \in SeqRange(columns) |->
          [k \in 0..(Len(file.rows) - 1) |->
              IF LastIndex(columns, name) = 1 THEN file.rows[k + 1].label
              ELSE file.rows[k + 1].cells[LastIndex(columns, name) - 1]]]

\* lines 212-218: the dict built from the columns other than 'Unnamed: 0'
pos_dict_of(df_dict) ==
    LET axes == df_dict[Unnamed(0)]
    IN [name \in DOMAIN df_dict \ {Unnamed(0)} |->
          [axis \in {axes[k] : k \in DOMAIN axes} |->
              df_dict[name][Max({k \in DOMAIN axes : axes[k] = axis})]]]

\* save_alignments, lines 202-206
SaveAlignments ==
    /\ ByUser
    /\ csv' = Some(to_csv(alignments))
    /\ Ends([Now EXCEPT !.log = "info"], "save_alignments", "", EmptyDict)
    /\ UNCHANGED <<constraints, axis_list, optimized_axis, axis_range, optimization_method,
                   alignments, run_start>>

\* upload_alignments, lines 208-220: read_csv raises when there is no file,
\* line 216 raises KeyError when the table has no column 'Unnamed: 0'
UploadAlignments ==
    /\ ByUser
    /\ IF csv = Unset
       THEN /\ Ends(Raise(Now, "FileNotFoundError"), "upload_alignments", "", EmptyDict)
            /\ UNCHANGED alignments
       ELSE IF Unnamed(0) \notin DOMAIN read_csv_to_dict(Val(csv))
       THEN /\ Ends(Raise(Now, "KeyError"), "upload_alignments", "", EmptyDict)
            /\ UNCHANGED alignments
       ELSE /\ Ends([Now EXCEPT !.log = "info"], "upload_alignments", "", EmptyDict)
            /\ alignments' = pos_dict_of(read_csv_to_dict(Val(csv)))
    /\ UNCHANGED <<csv, constraints, axis_list, optimized_axis, axis_range,
                   optimization_method, run_start>>

\* the names and positions the stores are filled with
StoreNames == {"A", "B", ""}

StorePositions == {0, 1}

\* the stores in which every snapshot holds a position for the same axes
Stores ==
    UNION {[names -> [axes -> StorePositions]] :
              names \in SUBSET StoreNames, axes \in {{"x"}, {"x", "y"}}}

\* a table written elsewhere: the row labelled q is of no axis of the motor
ForeignTable ==
    [header |-> <<"", "A">>,
     rows |-> <<[label |-> "x", cells |-> <<1>>], [label |-> UnknownAxis, cells |-> <<0>>]>>]

InitStore ==
    /\ constraints = RunMotor.table
    /\ axis_list = RunMotor.order
    /\ optimized_axis = RunMotor.order
    /\ alignments \in Stores
    /\ motor_pos = [a \in DOMAIN RunMotor.table |-> RunMotor.table[a].pos_max]
    /\ motor_positions = GetPos(motor_pos, RunMotor.order)
    /\ axis_range = InitialRanges(RunMotor.table)
    /\ optimization_method = "raster"
    /\ scan = Unset
    /\ scan_pos = Unset
    /\ points = Unset
    /\ point_index = NoIndex
    /\ connections = <<>>
    /\ pending = <<>>
    /\ csv \in {Unset, Some(ForeignTable)}
    /\ run_start = Unset
    /\ calls = 0
    /\ op = NoOp

NextStore ==
    \/ SaveAlignments
    \/ UploadAlignments

SpecStore == InitStore /\ [][NextStore]_vars

\* C17 as claimed: upload_alignments of the file save_alignments has just
\* written from a store whose snapshots all hold the same axes leaves the
\* store equal to what it was: same names, same axes, same positions.
C17_SaveUploadRoundTrip ==
    [][ (op.name = "save_alignments" /\ op'.name = "upload_alignments") =>
           /\ op'.err = "none"
           /\ alignments' = alignments ]_vars

\* C18 as claimed: after upload_alignments has read a table, no snapshot of
\* the store holds an axis identifier that is not an axis of the motor.
C18_UploadRejectsUnknownAxes ==
    (op.name = "upload_alignments" /\ op.err = "none") =>
        \A name \in DOMAIN alignments : DOMAIN alignments[name] \subseteq DOMAIN constraints

\* the position of the selected axes when the run was started, and that
\* position shifted by one step of the range of every selected axis
StartPoint == [j \in 1..Len(optimized_axis) |-> Val(run_start).pos[optimized_axis[j]]]

ShiftedPoint ==
    [j \in 1..Len(optimized_axis) |->
        StartPoint[j] + axis_range[optimized_axis[j]][2] - axis_range[optimized_axis[j]][1]]

\* every selected axis is an axis of the motor with a range of two positions
\* or more
SelectionHasSteps ==
    \A j \in 1..Len(optimized_axis) :
        /\ optimized_axis[j] \in DOMAIN motor_pos
        /\ optimized_axis[j] \in DOMAIN axis_range
        /\ Len(axis_range[optimized_axis[j]]) >= 2

\* C19 as claimed: once start_optimization has run the first tick of a
\* gradient run with the positioner ready, the points are exactly two, each
\* with one coordinate per selected axis: the position the selected axes had,
\* and that position shifted by one range step along every selected axis.
C19_GradientStartQueuesTwoPoints ==
    (/\ op.name = "start_optimization"
     /\ optimization_method = "gradient"
     /\ ~Busy(op)
     /\ SelectionHasSteps) =>
        /\ points # Unset
        /\ Val(points) = <<StartPoint, ShiftedPoint>>

\* C20 as claimed: the ready tick of a gradient run that finds no sample of
\* the run, or leaves a single one, only acquires the first sample: it raises
\* nothing, the run has one sample, and no decision was taken on it (the run
\* did not stop: its slot is connected and its next tick queued).
C20_FirstGradientSampleDecidesNothing ==
    (/\ ReadyGradientTick
     /\ run_start # Unset
     /\ SelectionHasSteps
     /\ scan = Unset \/ Len(Val(scan)) <= 1) =>
        /\ op.err = "none"
        /\ scan # Unset
        /\ Len(Val(scan)) = 1
        /\ connections # <<>>
        /\ pending # <<>>

\* the difference of the last two signal values, and of the last two sampled
\* positions of the j-th selected axis (lines 331-332)
ValueStep == Val(scan)[Len(Val(scan))] - Val(scan)[Len(Val(scan)) - 1]

PositionStep(j) ==
    Val(scan_pos)[Len(Val(scan_pos))][j] - Val(scan_pos)[Len(Val(scan_pos)) - 1][j]

\* ValueStep / PositionStep(j) > 1e-3 (line 334), without the division
SlopeAboveThreshold(j) ==
    /\ PositionStep(j) # 0
    /\ IF PositionStep(j) > 0 THEN 1000 * ValueStep > PositionStep(j)
       ELSE 1000 * ValueStep < PositionStep(j)

\* C21 as claimed: a tick of a gradient run that finds the positioner ready
\* raises nothing, and once the run holds two or more samples the tick has
\* decided on the slopes of the last two: if every axis slope is greater than
\* 1e-3, exactly one point was appended, equal per axis to the last sampled
\* position plus that axis's slope, and the next tick is queued; if some slope
\* is at or below 1e-3, no point was appended, the slot is disconnected and no
\* tick is queued.
C21_GradientTickStepsOrConverges ==
    (ReadyGradientTick /\ run_start # Unset /\ SelectionHasSteps) =>
        /\ op.err = "none"
        /\ points # Unset /\ scan # Unset /\ scan_pos # Unset
        /\ Len(Val(scan)) >= 2 =>
              IF \A j \in 1..Len(optimized_axis) : SlopeAboveThreshold(j)
              THEN /\ Len(Val(points)) = Len(Val(scan)) + 1
                   /\ \A j \in 1..Len(optimized_axis) :
                         (Val(points)[Len(Val(points))][j]
                             - Val(scan_pos)[Len(Val(scan_pos))][j]) * PositionStep(j) = ValueStep
                   /\ connections # <<>>
                   /\ pending # <<>>
              ELSE /\ Len(Val(points)) = Len(Val(scan))
                   /\ connections = <<>>
                   /\ pending = <<>>

\* C22 as claimed: the slope computation of a ready gradient tick yields no
\* error whatever the sampled positions, and when the last two sampled
\* positions are equal on some axis (a zero denominator, the slope then taken
\* as 0) the run is converged: the slot is disconnected and no tick is queued.
C22_ZeroDenominatorConverges ==
    (ReadyGradientTick /\ run_start # Unset /\ SelectionHasSteps) =>
        /\ op.err \notin {"KeyError", "TypeError", "ZeroDivisionError"}
        /\ (/\ scan_pos # Unset
            /\ Len(Val(scan_pos)) >= 2
            /\ \E j \in 1..Len(optimized_axis) : PositionStep(j) = 0) =>
              /\ connections = <<>>
              /\ pending = <<>>

\* C23 as claimed: every move a call commanded was preceded, with no other
\* move in between, by a status query of that call in which every axis the
\* move addresses was reported ready.
C23_MovesFollowIdleStatus ==
    /\ Len(op.moves) <= 1
    /\ \A k \in 1..Len(op.moves) :
          /\ DOMAIN op.moves[k] \subseteq DOMAIN op.status
          /\ \A a \in DOMAIN op.moves[k] : op.status[a]

(***************************************************************************)
(* Raster runs on a positioner with a coarse step, over ranges that are    *)
(* edited between and during the runs                                      *)
(***************************************************************************)
\* get_constraints() of a motor whose step is two units of position: x can
\* stand at 0, 2 or 4 and y at 0 or 2
ScanMotor ==
    [order |-> <<"x", "y">>,
     table |-> [a \in {"x", "y"} |->
                  IF a = "x" THEN Constraint(0, 4, 2) ELSE Constraint(0, 2, 2)]]

\* the range edits: x from 1 (the points 1 and 3 lie between the positions
\* the motor can take), x from the hardware minimum, y from 1
ScanEdits ==
    {<<[axis |-> "x", min |-> 1, max |-> 4, step |-> 2]>>,
     <<[axis |-> "x", min |-> 0, max |-> 4, step |-> 2]>>,
     <<[axis |-> "y", min |-> 1, max |-> 2, step |-> 2]>>}

ScanSelections == {<<"x">>, <<"y", "x">>}

InitScan == OnActivate(ScanMotor, "raster")

EditRange == \E axis_dict \in ScanEdits : set_axis_range(axis_dict)

SelectAxes == \E new_list \in ScanSelections : SetOptimizedAxis(new_list)

NextScan ==
    \/ EditRange
    \/ SelectAxes
    \/ StartOptimization
    \/ StopOptimization
    \/ RasterScanTick

SpecScan == InitScan /\ [][NextScan]_vars

\* the call that has just ended was a tick of a raster run that found the
\* positioner ready and took a sample: it raised nothing and did not fit
SampledNow(call) ==
    /\ call.name \in {"raster_scan", "start_optimization"}
    /\ call.err = "none"
    /\ call.fit = "none"
    /\ DOMAIN call.status # {}
    /\ ~Busy(call)

\* the cursor the tick that ended in the call found
CursorOf(call) == IF call.name = "start_optimization" THEN 0 ELSE point_index

\* C24: a tick of a raster run that finds the positioner ready and a point
\* left at the cursor commands exactly one move, to points[cursor] on the
\* selected axes, appends exactly one signal value and one position, and the
\* position appended is the one the positioner has after the move (read back
\* once the move is made), one coordinate per selected axis in selection
\* order, whether or not it is the point requested; the cursor advances by 1.
C24_SampleIsAchievedPosition ==
    [][ SampledNow(op') =>
          LET cursor == CursorOf(op') IN
          /\ point_index' = cursor + 1
          /\ Len(op'.moves) = 1
          /\ op'.moves[1] = [a \in SeqRange(optimized_axis) |->
                                Val(points')[cursor + 1][LastIndex(optimized_axis, a)]]
          /\ \E value \in Values :
                Val(scan') = Append(IF cursor = 0 THEN <<>> ELSE Val(scan), value)
          /\ Val(scan_pos') =
                Append(IF cursor = 0 THEN <<>> ELSE Val(scan_pos),
                       [j \in 1..Len(optimized_axis) |-> motor_pos'[optimized_axis[j]]]) ]_vars

\* a tick sampled a point of a scan of y and x, in that order, that the
\* positioner could not reach: the position recorded is not the point
C24_Witness ==
    /\ SampledNow(op)
    /\ optimized_axis = <<"y", "x">>
    /\ op.moved
    /\ point_index > 1
    /\ Val(scan_pos)[point_index] # Val(points)[point_index]
    /\ Val(scan_pos)[point_index] = <<motor_pos["y"], motor_pos["x"]>>

\* C25 as claimed: after any axis-range edit no stored range is empty, and the
\* bounds and the step the edit handed to np.arange satisfy min <= max and
\* step <= max - min, unless the range stored is a single point.
C25_StoredRangeWellFormed ==
    /\ \A a \in DOMAIN axis_range : axis_range[a] # <<>>
    /\ \A k \in 1..Len(op.edits) :
          LET e == op.edits[k] IN
          /\ e.min <= e.max
          /\ e.step <= e.max - e.min \/ Len(axis_range[e.axis]) = 1

\* C26 as claimed: an axis-range edit of an axis of the motor keeps a
\* requested minimum or maximum that lies inside [pos_min, pos_max], the
\* value 0 included, and replaces the requested step only when it is zero,
\* below the hardware step or above max - min.
C26_InsideBoundsKept ==
    \A k \in 1..Len(op.edits) :
        LET e == op.edits[k]
            c == constraints[e.axis]
        IN /\ (e.req.min >= c.pos_min /\ e.req.min <= c.pos_max) => e.min = e.req.min
           /\ (e.req.max >= c.pos_min /\ e.req.max <= c.pos_max) => e.max = e.req.max
           /\ e.step # e.req.step =>
                 \/ e.req.step = 0
                 \/ e.req.step < c.pos_step
                 \/ e.req.step > e.max - e.min

RoutineOf(method) ==
    IF method \in {"raster", "OptimizationMethod.raster"} THEN "raster_scan"
    ELSE "gradient_descent"

\* C28 as claimed: once the optimization_method setter has stored a strategy,
\* start_optimization starts a run of it: it connects the routine of that
\* strategy to the signal and runs its first tick, so that unless that tick
\* raises or ends the run at once the slot is connected afterwards.
C28_SetMethodThenStartRuns ==
    [][ (op'.name = "start_optimization" /\ IsEnum(optimization_method)) =>
           \/ op'.err # "none"
           \/ op'.fit # "none"
           \/ connections' = Append(connections, RoutineOf(optimization_method)) ]_vars

\* the number of values a list attribute holds (none when it is not set)
Count(attr) == IF attr = Unset THEN 0 ELSE Len(Val(attr))

\* C29 as claimed: in every state in which a tick of a raster run is queued,
\* the run having been started while no slot was connected or queued and
\* nothing but its ticks having happened since, the signal values are as many
\* as the sampled positions and as the cursor says, and the cursor does not
\* exceed the number of points.
C29_SamplesMatchCursor ==
    (CleanRasterRun /\ pending # <<>>) =>
        /\ Count(scan) = point_index
        /\ Count(scan_pos) = point_index
        /\ point_index <= Count(points)

\* C30 as claimed: stop_optimization called while no slot is connected and no
\* tick is queued raises nothing, commands no move and leaves the cursor, the
\* samples, the sampled positions, the cached position, the store and the
\* positioner as they were.
C30_StopWhenIdleIsNoOp ==
    [][ (op'.name = "stop_optimization" /\ Idle) =>
           /\ op'.err = "none"
           /\ op'.moves = <<>>
           /\ UNCHANGED <<point_index, scan, scan_pos, points, motor_positions,
                          alignments, motor_pos, connections, pending>> ]_vars

====
